---- MODULE Spec2Model ----
(***************************************************************************)
(* Licensing-Board-Scrape: the link classification scripts and the        *)
(* content-addressed PDF store.                                            *)
(*                                                                         *)
(* Three programs of the repository are modelled, each as its own         *)
(* specification over the same file system:                               *)
(*   Spec        src/src/download_minutes.py          main()              *)
(*   ScrapeSpec  src/src/scrape_licensing_board.py    main()              *)
(*   AppSpec     src/app/main.py                      main()              *)
(* and three more exercise their functions outside one run of main():     *)
(*   UnitSpec    the list functions, each called on its own               *)
(*   StoreSpec   save_data on a directory earlier runs have filled        *)
(*   LogSpec     classification runs one after the other on one log       *)
(*                                                                         *)
(* Strings the code inspects (hrefs) are sequences of tokens, so that     *)
(* "x in url", split and startswith are computed on the text and not      *)
(* assumed.  File contents (PDF bytes) are atomic values.                 *)
(***************************************************************************)
EXTENDS Integers, Sequences, FiniteSets, TLC

VARIABLES
    pc,           \* position of the running program
    exitCode,     \* process exit status, -1 while running
    linksFile,    \* data/voting_minutes_links.json: [kind, items]
    excludeFile,  \* data/url_exclude_list.json: [kind, items]
    files,        \* DOWNLOAD_DIR: file name -> bytes
    exceptionDir, \* EXCEPTION_PDFS as pdf_exceptions finds it
    idx,          \* number of items of the links list already handled
    fetched,      \* <<href, outcome>> of the records handed to pull_data, in order
    stored,       \* <<bytes, date>> pairs handed to save_data, in order
    last,         \* what the last step did
    videoFile,    \* data/hearing_video_links.json: [kind, items]
    statsLog,     \* data/link_stats_log.csv: [kind, rows]
    page,         \* what the GET of TARGET_URL answers
    filters,      \* ScraperService.filters
    stages,       \* stages of app main() that have started, in order
    stats,        \* the stats dict of the classification run
    written       \* the data files the process has written so far

vars == <<pc, exitCode, linksFile, excludeFile, files, exceptionDir, idx,
          fetched, stored, last, videoFile, statsLog, page, filters, stages,
          stats, written>>

----------------------------------------------------------------------------
(* Bounds *)

MaxLinks == 3       \* longest links list / page
MaxExclude == 1     \* longest exclude list the run starts from

----------------------------------------------------------------------------
(* Sequences *)

Range(s) == {s[k] : k \in 1..Len(s)}

NoDup(s) == \A a, b \in 1..Len(s) : s[a] = s[b] => a = b

SeqsUpTo(S, n) == UNION {[1..k -> S] : k \in 0..n}

\* pat occurs in s at position p (1-based)
OccursAt(pat, s, p) ==
    /\ p >= 1
    /\ p + Len(pat) - 1 <= Len(s)
    /\ \A k \in 1..Len(pat) : s[p + k - 1] = pat[k]

\* Python: pat in s
Contains(pat, s) == \E p \in 1..(Len(s) + 1) : OccursAt(pat, s, p)

\* Python: s.find(pat) + 1, 0 when absent
FirstOcc(pat, s) ==
    IF Contains(pat, s)
    THEN CHOOSE p \in 1..(Len(s) + 1) :
            /\ OccursAt(pat, s, p)
            /\ \A q \in 1..(p - 1) : ~OccursAt(pat, s, q)
    ELSE 0

\* Python: SelectSeq keeps the relative order
Filter(s, Keep(_)) == SelectSeq(s, Keep)

----------------------------------------------------------------------------
(* Text: hrefs, bodies, dates and file names are sequences of tokens.  A   *)
(* digit or a punctuation mark is a token of its own; a word is one token. *)

None == "<None>"

BASE_URL == <<"https:", "/", "/", "www.boston.gov">>

HRel == <<"/", "files", "/", "a.pdf">>
HRel2 == <<"/", "files", "/", "b.pdf">>
HDrive == <<"https:", "/", "/", "drive.google.com", "/", "file", "/", "d", "/",
            "ID", "7", "/", "view">>

D1 == <<"2", "0", "2", "3", "-", "0", "3", "-", "0", "3">>
D2 == <<"yyyy", "-", "mm", "-", "dd">>

Body1 == <<"Voting", " ", "Minutes">>

\* bytes a GET can answer with: three PDFs and a page that is no PDF
PdfA == "%PDF-A"
PdfB == "%PDF-B"
PdfC == "%PDF-C"
Html == "<html>"

\* pikepdf.open succeeds
is_valid_pdf(content) == content \in {PdfA, PdfB, PdfC}

\* hashlib.sha256(b).digest(), collision-free
sha256(b) == <<"sha256", b>>

\* a JSON file on disk
Absent == [kind |-> "absent", items |-> <<>>]
JsonList(s) == [kind |-> "list", items |-> s]

EmptyDir == [n \in {} |-> ""]

\* no GET of the target page
NoPage == [exc |-> "none", status |-> 0, empty |-> TRUE, links |-> <<>>]

\* an empty dict
NoStats == [k \in {} |-> 0]

----------------------------------------------------------------------------
(* download_minutes.py *)

\* read_data: "ok" or the exception it raises
read_data(file) ==
    IF file.kind = "absent" THEN "FileNotFoundError"
    ELSE IF file.kind # "list" THEN "ValueError"
    ELSE IF \E k \in 1..Len(file.items) :
                ~({"href", "body", "date"} \subseteq DOMAIN file.items[k])
         THEN "ValueError"
    ELSE "ok"

is_google_drive_url(url) == Contains(<<"drive.google.com", "/", "file">>, url)

google_drive_to_download_url(url) ==
    LET marker == <<"/", "file", "/", "d", "/">>
    IN  IF ~Contains(marker, url) THEN url
        ELSE LET p == FirstOcc(marker, url)
                 rest == SubSeq(url, p + Len(marker), Len(url))
                 q == FirstOcc(<<"/">>, rest)
                 file_id == IF q = 0 THEN rest ELSE SubSeq(rest, 1, q - 1)
             IN  <<"https:", "/", "/", "drive.google.com", "/",
                   "uc?export=download&id=">> \o file_id

\* urllib.parse.urljoin for a base without a path
urljoin(base, href) ==
    IF href = <<>> THEN base
    ELSE IF href[1] \in {"https:", "http:"} THEN href
    ELSE IF href[1] = "/" THEN base \o href
    ELSE base \o <<"/">> \o href

append_always(new_url, file) ==
    JsonList(Append(IF file.kind = "list" THEN file.items ELSE <<>>, new_url))

append_to_url_exclude_list(new_url, file) ==
    LET url_list == IF file.kind = "list" THEN file.items ELSE <<>>
    IN  IF new_url \notin Range(url_list)
        THEN JsonList(Append(url_list, new_url))
        ELSE file

\* pull_data: the bytes or None, the exclude list file afterwards, the URL asked
pull_data(href0, resp, exclude) ==
    LET href == IF is_google_drive_url(href0)
                THEN google_drive_to_download_url(href0) ELSE href0
        url == urljoin(BASE_URL, href)
    IN  IF resp.exc # "none" \/ resp.status >= 400
        THEN [content |-> None, exclude |-> exclude, url |-> url, added |-> <<>>]
        ELSE IF ~is_valid_pdf(resp.content)
        THEN [content |-> None,
              exclude |-> append_to_url_exclude_list(href, exclude),
              url |-> url, added |-> <<href>>]
        ELSE [content |-> resp.content, exclude |-> exclude, url |-> url,
              added |-> <<>>]

\* index 1 is the base name, index N >= 2 the _vN name
candidate(date_str, index) ==
    IF index = 1
    THEN <<"voting_minutes_">> \o date_str \o <<".pdf">>
    ELSE <<"voting_minutes_">> \o date_str \o <<"_v", ToString(index), ".pdf">>

\* the probe loop without its hash comparison
RECURSIVE probe_no_dedup(_, _, _, _)
probe_no_dedup(dir, file_content, date_str, index) ==
    LET c == candidate(date_str, index)
    IN  IF c \notin DOMAIN dir
        THEN [dir |-> (c :> file_content) @@ dir, ret |-> c, wrote |-> TRUE,
              index |-> index]
        ELSE probe_no_dedup(dir, file_content, date_str, index + 1)

\* a scan that looks for equal bytes at every index before it writes
probe_past_absent(dir, file_content, date_str, index) ==
    LET top == index + Cardinality(DOMAIN dir)
        Same == {k \in index..top :
                    /\ candidate(date_str, k) \in DOMAIN dir
                    /\ dir[candidate(date_str, k)] = file_content}
        Free == {k \in index..top : candidate(date_str, k) \notin DOMAIN dir}
        Least(S) == CHOOSE k \in S : \A j \in S : k <= j
    IN  IF Same # {}
        THEN [dir |-> dir, ret |-> candidate(date_str, Least(Same)),
              wrote |-> FALSE, index |-> Least(Same)]
        ELSE [dir |-> (candidate(date_str, Least(Free)) :> file_content) @@ dir,
              ret |-> candidate(date_str, Least(Free)), wrote |-> TRUE,
              index |-> Least(Free)]

\* a probe loop that steps by two after the base name
RECURSIVE probe_by_two(_, _, _, _)
probe_by_two(dir, file_content, date_str, index) ==
    LET c == candidate(date_str, index)
    IN  IF c \notin DOMAIN dir
        THEN [dir |-> (c :> file_content) @@ dir, ret |-> c, wrote |-> TRUE,
              index |-> index]
        ELSE IF sha256(dir[c]) = sha256(file_content)
        THEN [dir |-> dir, ret |-> c, wrote |-> FALSE, index |-> index]
        ELSE probe_by_two(dir, file_content, date_str, index + 2)

\* the while loop of save_data from `index` on
RECURSIVE probe(_, _, _, _)
probe(dir, file_content, date_str, index) ==
    LET c == candidate(date_str, index)
    IN  IF c \notin DOMAIN dir
        THEN [dir |-> (c :> file_content) @@ dir, ret |-> c, wrote |-> TRUE,
              index |-> index]
        ELSE IF sha256(dir[c]) = sha256(file_content)
        THEN [dir |-> dir, ret |-> c, wrote |-> FALSE, index |-> index]
        ELSE probe(dir, file_content, date_str, index + 1)

\* save_data writing changed bytes over the base file
save_data_overwrite(file_content, date_str, dir) ==
    LET base_path == candidate(date_str, 1)
    IN  IF base_path \in DOMAIN dir
           /\ sha256(dir[base_path]) = sha256(file_content)
        THEN [dir |-> dir, ret |-> base_path, wrote |-> FALSE, index |-> 1]
        ELSE [dir |-> (base_path :> file_content) @@ dir, ret |-> base_path,
              wrote |-> TRUE, index |-> 1]

save_data(file_content, date_str, dir) ==
    LET base_path == candidate(date_str, 1)
    IN  IF base_path \in DOMAIN dir
           /\ sha256(dir[base_path]) = sha256(file_content)
        THEN [dir |-> dir, ret |-> base_path, wrote |-> FALSE, index |-> 1]
        ELSE probe(dir, file_content, date_str, 1)

\* src_dir.glob("*.pdf")
IsPdfName(name) == Len(name) > 0 /\ name[Len(name)] = ".pdf"

pdf_exceptions(src, dir) ==
    IF ~src.exists THEN dir
    ELSE LET pdfs == {n \in DOMAIN src.files : IsPdfName(n)}
         IN  [n \in DOMAIN dir \cup pdfs |->
                 IF n \in pdfs THEN src.files[n] ELSE dir[n]]

\* `not item.get(k)`
Falsy(item, k) == k \notin DOMAIN item \/ item[k] = <<>>

----------------------------------------------------------------------------
(* scrape_licensing_board.py: the exclude-list filter *)

\* link.get("href", "")
HrefOf(link) == IF "href" \in DOMAIN link THEN link.href ELSE <<>>

\* remove_exclude_links: the filtered list, or the exception raised.
\* set(json.load(f)) of a JSON object is the set of its keys; of a number
\* it is a TypeError.
remove_exclude_links(links_list, file) ==
    IF file.kind = "absent"
    THEN [raised |-> "FileNotFoundError", links |-> <<>>]
    ELSE IF file.kind = "invalid_json"
    THEN [raised |-> "ValueError", links |-> <<>>]
    ELSE IF file.kind = "number"
    THEN [raised |-> "TypeError", links |-> <<>>]
    ELSE LET exclude_list == Range(file.items)
             Keep(link) == HrefOf(link) \notin exclude_list
         IN  [raised |-> "none", links |-> SelectSeq(links_list, Keep)]

----------------------------------------------------------------------------
(* scrape_licensing_board.py: fetch, filters, split, stats *)

\* get_html_content + get_href_tags: the anchors of the page, or RuntimeError
get_html_content(pg) ==
    IF pg.exc # "none" \/ pg.status # 200 \/ pg.empty
    THEN [raised |-> "RuntimeError", links |-> <<>>]
    ELSE [raised |-> "none", links |-> pg.links]

\* str.lower() on the tokens of the model
lower(w) ==
    CASE w = "MAILTO:" -> "mailto:"
      [] w = "Tel:" -> "tel:"
      [] w = "YouTube" -> "youtube"
      [] w = "JavaScript:" -> "javascript:"
      [] OTHER -> w

Lower(s) == [k \in 1..Len(s) |-> lower(s[k])]

\* href.startswith(local_prefixes)
StartsWithAny(s, prefixes) == Len(s) > 0 /\ s[1] \in prefixes

local_prefixes == {"tel:", "mailto:", "#", "javascript:"}

\* the filter without href.lower()
remove_client_side_case_sensitive(links_list) ==
    LET Keep(link) == ~StartsWithAny(HrefOf(link), local_prefixes)
    IN  SelectSeq(links_list, Keep)

remove_client_side_links(links_list) ==
    LET Keep(link) == ~StartsWithAny(Lower(HrefOf(link)), local_prefixes)
    IN  SelectSeq(links_list, Keep)

is_youtube_url(url) ==
    \/ Contains(<<"youtube", ".com">>, Lower(url))
    \/ Contains(<<"youtu", ".be">>, Lower(url))
    \/ Contains(<<"youtube">>, Lower(url))

\* a split that leaves the video links in the other list as well
split_keeping_videos(links_list) ==
    LET IsVideo(link) == is_youtube_url(HrefOf(link))
    IN  [video |-> SelectSeq(links_list, IsVideo), other |-> links_list]

extract_hearing_video_links(links_list) ==
    LET IsVideo(link) == is_youtube_url(HrefOf(link))
        IsOther(link) == ~is_youtube_url(HrefOf(link))
    IN  [video |-> SelectSeq(links_list, IsVideo),
         other |-> SelectSeq(links_list, IsOther)]

fieldnames == <<"run_date", "total_links", "client_side_links",
                "excluded_links", "video_links", "minutes_links">>

\* link_stats.get(k, 0)
StatOf(link_stats, k) == IF k \in DOMAIN link_stats THEN link_stats[k] ELSE 0

\* the CSV file after log_link_stats_csv / StatsLogger.log_stats
\* a logger that writes the header before every row
log_with_header(link_stats, csv, run_date) ==
    LET row == [k \in 1..Len(fieldnames) |->
                   IF k = 1 THEN run_date
                   ELSE ToString(StatOf(link_stats, fieldnames[k]))]
    IN  [kind |-> "csv", items |-> csv.items \o <<fieldnames, row>>]

log_link_stats_csv(link_stats, csv, run_date) ==
    LET row == [k \in 1..Len(fieldnames) |->
                   IF k = 1 THEN run_date
                   ELSE ToString(StatOf(link_stats, fieldnames[k]))]
    IN  IF csv.kind = "absent"
        THEN [kind |-> "csv", items |-> <<fieldnames, row>>]
        ELSE [kind |-> "csv", items |-> Append(csv.items, row)]

----------------------------------------------------------------------------
(* scrape_licensing_board.py: date inference *)

Digits == {"0", "1", "2", "3", "4", "5", "6", "7", "8", "9"}

IsDigitAt(s, p) == p >= 1 /\ p <= Len(s) /\ s[p] \in Digits

DigitVal(d) ==
    CASE d = "0" -> 0 [] d = "1" -> 1 [] d = "2" -> 2 [] d = "3" -> 3
      [] d = "4" -> 4 [] d = "5" -> 5 [] d = "6" -> 6 [] d = "7" -> 7
      [] d = "8" -> 8 [] d = "9" -> 9

DigitTok(n) ==
    CASE n = 0 -> "0" [] n = 1 -> "1" [] n = 2 -> "2" [] n = 3 -> "3"
      [] n = 4 -> "4" [] n = 5 -> "5" [] n = 6 -> "6" [] n = 7 -> "7"
      [] n = 8 -> "8" [] n = 9 -> "9"

\* int(s) of a run of digits
RECURSIVE int(_)
int(s) ==
    IF s = <<>> THEN 0
    ELSE 10 * int(SubSeq(s, 1, Len(s) - 1)) + DigitVal(s[Len(s)])

\* str(n), n >= 0
RECURSIVE str(_)
str(n) == IF n < 10 THEN <<DigitTok(n)>> ELSE str(n \div 10) \o <<DigitTok(n % 10)>>

\* f"{n:02d}"
fmt02(n) == IF n < 10 THEN <<"0">> \o str(n) ELSE str(n)

\* number of digits from position p on, at most `most`
RECURSIVE DigitRun(_, _, _)
DigitRun(s, p, most) ==
    IF most = 0 \/ ~IsDigitAt(s, p) THEN 0 ELSE 1 + DigitRun(s, p + 1, most - 1)

\* first position from p on holding a token in / not in a set, Len(s) + 1 if none
SkipWhile(s, p, Keep(_)) ==
    IF p > Len(s) THEN p
    ELSE CHOOSE r \in p..(Len(s) + 1) :
            /\ r = Len(s) + 1 \/ ~Keep(s[r])
            /\ \A j \in p..(r - 1) : Keep(s[j])

MonthNames == <<"January", "February", "March", "April", "May", "June", "July",
                "August", "September", "October", "November", "December">>

\* str.capitalize() on the words of the model
capitalize(w) ==
    CASE w \in {"march", "MARCH"} -> "March"
      [] w \in {"july", "JULY"} -> "July"
      [] w \in {"february", "FEBRUARY"} -> "February"
      [] OTHER -> w

\* a month name in any letter case (re.IGNORECASE)
IsMonth(w) == capitalize(w) \in Range(MonthNames)

\* MONTH_NAME_TO_NUM
MONTH_NAME_TO_NUM(name) == CHOOSE k \in 1..12 : MonthNames[k] = name

\* urllib.parse.unquote on the escapes of the model
unquote(s) == [k \in 1..Len(s) |-> IF s[k] = "%20" THEN " " ELSE s[k]]

NoMatch == [found |-> FALSE, month |-> <<>>, day |-> <<>>, year |-> <<>>]

IsSep(t) == t \in {" ", ","}
IsSpace(t) == t = " "
NonDigit(t) == t \notin Digits

\* BODY_MONTH_DAY_PATTERN matched at position p
BodyMatchAt(s, p) ==
    IF ~(p <= Len(s) /\ IsMonth(s[p]) /\ p + 1 <= Len(s) /\ IsSep(s[p + 1]))
    THEN NoMatch
    ELSE LET r == SkipWhile(s, p + 1, IsSep)
             l == DigitRun(s, r, 2)
             a == r + l
             b == IF a <= Len(s) /\ s[a] \in {"st", "nd", "rd", "th"}
                  THEN a + 1 ELSE a
             y == IF b <= Len(s) /\ s[b] = ","
                  THEN SkipWhile(s, b + 1, IsSpace) ELSE 0
         IN  IF l = 0 THEN NoMatch
             ELSE [found |-> TRUE, month |-> <<s[p]>>,
                   day |-> SubSeq(s, r, r + l - 1),
                   year |-> IF y > 0 /\ DigitRun(s, y, 4) = 4
                            THEN SubSeq(s, y, y + 3) ELSE <<>>]

\* HREF_NUMERIC_PATTERN matched at position p
NumMatchAt(s, p) ==
    LET l1 == DigitRun(s, p, 3)
        q == p + l1 + 1
        l2 == DigitRun(s, q, 3)
        u == q + l2 + 1
        l3 == DigitRun(s, u, 4)
    IN  IF /\ l1 \in {1, 2} /\ p + l1 <= Len(s) /\ s[p + l1] = "-"
           /\ l2 \in {1, 2} /\ q + l2 <= Len(s) /\ s[q + l2] = "-"
           /\ l3 >= 2
        THEN [found |-> TRUE, month |-> SubSeq(s, p, p + l1 - 1),
              day |-> SubSeq(s, q, q + l2 - 1),
              year |-> SubSeq(s, u, u + l3 - 1)]
        ELSE NoMatch

\* HREF_MONTH_PATTERN matched at position p, the day taking l digits
MonthMatchWith(s, p, l) ==
    LET r == SkipWhile(s, p + 1, NonDigit)
        u == SkipWhile(s, r + l, NonDigit)
    IN  IF p <= Len(s) /\ IsMonth(s[p]) /\ DigitRun(s, r, l) = l
           /\ DigitRun(s, u, 4) = 4
        THEN [found |-> TRUE, month |-> <<s[p]>>,
              day |-> SubSeq(s, r, r + l - 1), year |-> SubSeq(s, u, u + 3)]
        ELSE NoMatch

\* greedy \d{1,2}: two digits first, one on backtracking
MonthMatchAt(s, p) ==
    IF MonthMatchWith(s, p, 2).found THEN MonthMatchWith(s, p, 2)
    ELSE MonthMatchWith(s, p, 1)

\* pattern.search(s): the match at the leftmost position that has one
RECURSIVE search_body(_, _)
search_body(s, p) ==
    IF p > Len(s) THEN NoMatch
    ELSE IF IsMonth(s[p]) /\ BodyMatchAt(s, p).found THEN BodyMatchAt(s, p)
    ELSE search_body(s, p + 1)

RECURSIVE search_numeric(_, _)
search_numeric(s, p) ==
    IF p > Len(s) THEN NoMatch
    ELSE IF s[p] \in Digits /\ NumMatchAt(s, p).found THEN NumMatchAt(s, p)
    ELSE search_numeric(s, p + 1)

RECURSIVE search_month(_, _)
search_month(s, p) ==
    IF p > Len(s) THEN NoMatch
    ELSE IF IsMonth(s[p]) /\ MonthMatchAt(s, p).found THEN MonthMatchAt(s, p)
    ELSE search_month(s, p + 1)

\* F applied to the value of v
With(v, F(_)) == CHOOSE r \in {F(x) : x \in {v}} : TRUE

Unresolved(d) == d.month = <<>> \/ d.day = <<>> \/ d.year = <<>>

\* 1: the body match sets what it holds
from_body(bm) ==
    IF bm.found
    THEN [month |-> fmt02(MONTH_NAME_TO_NUM(capitalize(bm.month[1]))),
          day |-> fmt02(int(bm.day)), year |-> bm.year]
    ELSE [month |-> <<>>, day |-> <<>>, year |-> <<>>]

\* a numeric match that overwrites what the body gave
fill_numeric_overwrite(d, nm) ==
    IF ~nm.found THEN d
    ELSE [month |-> fmt02(int(nm.month)), day |-> fmt02(int(nm.day)),
          year |-> IF int(nm.year) < 100 THEN str(int(nm.year) + 2000)
                   ELSE str(int(nm.year))]

\* 2: mm-dd-yy in the href fills what is missing
fill_numeric(d, nm) ==
    IF ~nm.found THEN d
    ELSE [month |-> IF d.month # <<>> THEN d.month ELSE fmt02(int(nm.month)),
          day |-> IF d.day # <<>> THEN d.day ELSE fmt02(int(nm.day)),
          year |-> IF d.year # <<>> THEN d.year
                   ELSE IF int(nm.year) < 100 THEN str(int(nm.year) + 2000)
                   ELSE str(int(nm.year))]

\* 3: a month name in the href fills what is missing
fill_month(d, mm) ==
    IF ~mm.found THEN d
    ELSE [month |-> IF d.month # <<>> THEN d.month
                    ELSE fmt02(MONTH_NAME_TO_NUM(capitalize(mm.month[1]))),
          day |-> IF d.day # <<>> THEN d.day ELSE fmt02(int(mm.day)),
          year |-> IF d.year # <<>> THEN d.year ELSE mm.year]

\* the date string with placeholders for what stayed missing
compose_date(d) ==
    (IF d.year # <<>> THEN d.year ELSE <<"yyyy">>) \o <<"-">>
    \o (IF d.month # <<>> THEN d.month ELSE <<"mm">>) \o <<"-">>
    \o (IF d.day # <<>> THEN d.day ELSE <<"dd">>)

\* the date extract_date gives one link
date_of(body, href) ==
    With(from_body(search_body(body, 1)), LAMBDA d1 :
      With(IF Unresolved(d1)
           THEN fill_numeric(d1, search_numeric(unquote(href), 1)) ELSE d1,
           LAMBDA d2 :
             compose_date(IF Unresolved(d2)
                          THEN fill_month(d2, search_month(unquote(href), 1))
                          ELSE d2)))

\* item.get(k, "")
GetOr(item, k) == IF k \in DOMAIN item THEN item[k] ELSE <<>>

\* item.copy() with new_item["date"] = date_str
WithDate(item, date_str) ==
    [k \in DOMAIN item \cup {"date"} |-> IF k = "date" THEN date_str ELSE item[k]]

extract_date(links_list) ==
    [k \in 1..Len(links_list) |->
        WithDate(links_list[k],
                 date_of(GetOr(links_list[k], "body"), GetOr(links_list[k], "href")))]

----------------------------------------------------------------------------
(* Inputs of a download run *)

\* link records of data/voting_minutes_links.json, well-formed and not
Items ==
    { [href |-> HRel,   body |-> Body1, date |-> D1],
      [href |-> HDrive, body |-> Body1, date |-> D2],
      [href |-> HRel2,  body |-> Body1, date |-> <<>>],
      [href |-> <<>>,   body |-> Body1, date |-> D1],
      [href |-> HRel2,  date |-> D1] }

LinksFiles == {Absent} \cup {JsonList(s) : s \in SeqsUpTo(Items, MaxLinks)}

\* data/url_exclude_list.json before the run
ExcludeFiles ==
    {Absent, [kind |-> "invalid_json", items |-> <<>>],
     [kind |-> "object", items |-> <<>>]}
    \cup {JsonList(s) : s \in SeqsUpTo({HRel}, MaxExclude)}

ExceptionDirs ==
    { [exists |-> FALSE, files |-> EmptyDir],
      [exists |-> TRUE, files |-> (candidate(D1, 1) :> PdfB)
                                  @@ (<<"README", ".txt">> :> Html)],
      [exists |-> TRUE, files |-> (candidate(D1, 3) :> PdfA)] }

\* what requests.get(url, timeout=30) can do
Responses ==
    { [exc |-> "Timeout", status |-> 0, content |-> ""],
      [exc |-> "none", status |-> 404, content |-> Html] }
    \cup {[exc |-> "none", status |-> 200, content |-> c] :
            c \in {PdfA, PdfB, PdfC, Html}}

\* how a response fares in pull_data
Outcome(resp) ==
    IF resp.exc # "none" \/ resp.status >= 400 THEN "request_error"
    ELSE IF ~is_valid_pdf(resp.content) THEN "invalid_pdf"
    ELSE "pdf"

NoOp == [op |-> "none", n |-> 0, href |-> <<>>, date |-> <<>>,
         content |-> None, added |-> <<>>, ret |-> <<>>, wrote |-> FALSE,
         index |-> 0, raised |-> "none"]

ScrapeIdle ==
    /\ videoFile = Absent
    /\ statsLog = Absent
    /\ page = NoPage
    /\ filters = <<>>
    /\ stages = <<>>
    /\ stats = NoStats
    /\ written = {}

Init ==
    /\ pc = "start"
    /\ exitCode = -1
    /\ linksFile \in LinksFiles
    /\ excludeFile \in ExcludeFiles
    /\ files = EmptyDir
    /\ exceptionDir = [exists |-> FALSE, files |-> EmptyDir]
    /\ idx = 0
    /\ fetched = <<>>
    /\ stored = <<>>
    /\ last = NoOp
    /\ ScrapeIdle

scrapeVars == <<videoFile, statsLog, page, filters, stages, stats, written>>

----------------------------------------------------------------------------
(* download_minutes.py main() *)

\* links_list = read_data(VOTING_MINUTES_LINKS); an exception ends the process
ReadData ==
    /\ pc = "start"
    /\ LET r == read_data(linksFile)
       IN  /\ pc' = IF r = "ok" THEN "loop" ELSE "exit"
           /\ exitCode' = IF r = "ok" THEN -1 ELSE 1
           /\ last' = [NoOp EXCEPT !.op = "read_data", !.raised = r]
    /\ UNCHANGED <<linksFile, excludeFile, files, exceptionDir, idx, fetched,
                   stored, scrapeVars>>

\* if not href or not date: continue
SkipItem ==
    /\ pc = "loop"
    /\ idx < Len(linksFile.items)
    /\ LET item == linksFile.items[idx + 1]
       IN  /\ Falsy(item, "href") \/ Falsy(item, "date")
           /\ last' = [NoOp EXCEPT !.op = "skip", !.n = idx + 1]
    /\ idx' = idx + 1
    /\ UNCHANGED <<pc, exitCode, linksFile, excludeFile, files, exceptionDir,
                   fetched, stored, scrapeVars>>

\* content = pull_data(href); if content: save_data(content, date)
DownloadItem ==
    /\ pc = "loop"
    /\ idx < Len(linksFile.items)
    /\ LET item == linksFile.items[idx + 1]
       IN  /\ ~Falsy(item, "href")
           /\ ~Falsy(item, "date")
           /\ \E resp \in Responses :
                LET r == pull_data(item.href, resp, excludeFile)
                    s == save_data(r.content, item.date, files)
                    did == [NoOp EXCEPT !.n = idx + 1, !.href = item.href,
                               !.date = item.date, !.added = r.added]
                IN  /\ excludeFile' = r.exclude
                    /\ fetched' = Append(fetched, <<item.href, Outcome(resp)>>)
                    /\ IF r.content # None /\ r.content # ""
                       THEN /\ files' = s.dir
                            /\ stored' = Append(stored, <<r.content, item.date>>)
                            /\ last' = [did EXCEPT !.op = "save_data",
                                          !.content = r.content, !.ret = s.ret,
                                          !.wrote = s.wrote, !.index = s.index]
                       ELSE /\ UNCHANGED <<files, stored>>
                            /\ last' = [did EXCEPT !.op = "failed"]
    /\ idx' = idx + 1
    /\ UNCHANGED <<pc, exitCode, linksFile, exceptionDir, scrapeVars>>

\* after the loop: pdf_exceptions(), then the process ends
PdfExceptions ==
    /\ pc = "loop"
    /\ idx = Len(linksFile.items)
    /\ \E src \in ExceptionDirs :
          /\ exceptionDir' = src
          /\ files' = pdf_exceptions(src, files)
    /\ pc' = "exit"
    /\ exitCode' = 0
    /\ last' = [NoOp EXCEPT !.op = "pdf_exceptions"]
    /\ UNCHANGED <<linksFile, excludeFile, idx, fetched, stored, scrapeVars>>

Next == ReadData \/ SkipItem \/ DownloadItem \/ PdfExceptions

Spec == Init /\ [][Next]_vars

----------------------------------------------------------------------------
(* scrape_licensing_board.py main() *)

BodyDated == <<"March", " ", "3", "rd", ",", " ", "2", "0", "2", "3">>
HMail == <<"MAILTO:", "board@boston.gov">>
HAnchor == <<"#", "content">>
HVideo == <<"https:", "/", "/", "www.", "YouTube", ".com", "/", "watch">>
HNumeric == <<"/", "files", "/", "0", "7", "-", "0", "4", "-", "2", "3", "/",
              "doc.pdf">>

\* the <a href> tags a page can hold
Anchors ==
    { [href |-> HMail,    body |-> <<"Email">>],
      [href |-> HAnchor,  body |-> <<"Skip">>],
      [href |-> HVideo,   body |-> <<"Hearing">>],
      [href |-> HRel,     body |-> BodyDated],
      [href |-> HNumeric, body |-> Body1],
      [href |-> HDrive,   body |-> Body1] }

\* what requests.get(TARGET_URL) can do
PageResponses ==
    { [exc |-> "ConnectionError", status |-> 0, empty |-> TRUE, links |-> <<>>],
      [exc |-> "none", status |-> 500, empty |-> FALSE, links |-> <<>>],
      [exc |-> "none", status |-> 200, empty |-> TRUE, links |-> <<>>] }
    \cup {[exc |-> "none", status |-> 200, empty |-> FALSE, links |-> l] :
            l \in SeqsUpTo(Anchors, MaxLinks)}

\* data/url_exclude_list.json as a classification run can find it
ScrapeExcludeFiles ==
    { Absent,
      [kind |-> "invalid_json", items |-> <<>>],
      [kind |-> "number", items |-> <<>>],
      [kind |-> "object", items |-> <<>>],
      [kind |-> "object", items |-> <<HRel>>] }
    \cup {JsonList(l) : l \in SeqsUpTo({HRel}, MaxExclude)}

\* datetime.now().strftime("%Y-%m-%d")
Today == "2026-01-15"

\* main() up to its writes: what it raises, or what it is about to write
scrape_main(pg, exclude) ==
    LET html == get_html_content(pg)
        links_list == html.links
        total == Len(links_list)
        cleaned == remove_client_side_links(links_list)
        client_side == total - Len(cleaned)
        kept == remove_exclude_links(cleaned, exclude)
        excluded == total - client_side - Len(kept.links)
        split == extract_hearing_video_links(kept.links)
    IN  IF html.raised # "none"
        THEN [raised |-> html.raised, video |-> <<>>, minutes |-> <<>>,
              link_stats |-> NoStats]
        ELSE IF kept.raised # "none"
        THEN [raised |-> kept.raised, video |-> <<>>, minutes |-> <<>>,
              link_stats |-> NoStats]
        ELSE [raised |-> "none", video |-> split.video,
              minutes |-> extract_date(split.other),
              link_stats |-> [total_links |-> total,
                              client_side_links |-> client_side,
                              excluded_links |-> excluded,
                              video_links |-> Len(split.video),
                              minutes_links |-> Len(split.other)]]

downloadVars == <<files, exceptionDir, idx, fetched, stored>>

ScrapeInit ==
    /\ pc = "start"
    /\ exitCode = -1
    /\ linksFile = Absent
    /\ videoFile = Absent
    /\ statsLog \in {Absent, [kind |-> "csv", items |-> <<fieldnames>>]}
    /\ excludeFile \in ScrapeExcludeFiles
    /\ page \in PageResponses
    /\ files = EmptyDir
    /\ exceptionDir = [exists |-> FALSE, files |-> EmptyDir]
    /\ idx = 0
    /\ fetched = <<>>
    /\ stored = <<>>
    /\ last = NoOp
    /\ filters = <<>>
    /\ stages = <<>>
    /\ stats = NoStats
    /\ written = {}

\* an exception main() catches (sys.exit(1)) or lets through (traceback)
ScrapeAborts ==
    /\ pc = "start"
    /\ \E r \in {scrape_main(page, excludeFile)} :
           /\ r.raised # "none"
           /\ last' = [NoOp EXCEPT !.op = "scrape", !.raised = r.raised]
    /\ pc' = "exit"
    /\ exitCode' = 1
    /\ UNCHANGED <<linksFile, excludeFile, videoFile, statsLog, page, filters,
                   stages, stats, written, downloadVars>>

\* the run that reaches "Done."
ScrapeCompletes ==
    /\ pc = "start"
    /\ \E r \in {scrape_main(page, excludeFile)} :
           /\ r.raised = "none"
           /\ videoFile' = JsonList(r.video)
           /\ linksFile' = JsonList(r.minutes)
           /\ stats' = r.link_stats
           /\ statsLog' = log_link_stats_csv(r.link_stats, statsLog, Today)
    /\ written' = {"video", "links", "stats"}
    /\ last' = [NoOp EXCEPT !.op = "scrape"]
    /\ pc' = "exit"
    /\ exitCode' = 0
    /\ UNCHANGED <<excludeFile, page, filters, stages, downloadVars>>

ScrapeNext == ScrapeAborts \/ ScrapeCompletes

ScrapeSpec == ScrapeInit /\ [][ScrapeNext]_vars

----------------------------------------------------------------------------
(* app: ScraperService, DownloaderService, main() *)

\* class names, as the words `"ClientSide" in filter_name` looks for
ClientSideFilter == <<"ClientSide", "Filter">>
ExcludeListFilter == <<"Exclude", "List", "Filter">>
VideoLinkFilter == <<"Video", "Link", "Filter">>

\* ScraperService._fetch_html + HtmlLinkExtractor.extract_links
fetch_html(pg) ==
    IF pg.exc # "none" \/ pg.status >= 400 \/ pg.empty
    THEN [raised |-> "RuntimeError", links |-> <<>>]
    ELSE [raised |-> "none", links |-> pg.links]

\* VideoLinkSeparator.process
separator_process(links) ==
    LET IsVideo(link) ==
            \/ Contains(<<"youtube", ".com">>, Lower(HrefOf(link)))
            \/ Contains(<<"youtu", ".be">>, Lower(HrefOf(link)))
        IsOther(link) == ~IsVideo(link)
    IN  [video |-> SelectSeq(links, IsVideo), other |-> SelectSeq(links, IsOther)]

\* ExcludeListFilter.process: a configuration error unless the file is a list
exclude_filter_process(links, file) ==
    IF file.kind # "list"
    THEN [raised |-> "ConfigurationError", links |-> <<>>]
    ELSE remove_exclude_links(links, file)

\* what VideoLinkFilter.process can do with the list it is handed: hand it
\* on whole, or hand on the records that are not video links
VideoFilterProcesses == {"pass", "drop_video"}

\* a registered filter object: its class name and what its process() does
FilterObj(name, process) == [name |-> name, process |-> process]

\* f.process(filtered_links) of the three filter classes
filter_process(f, links, exclude) ==
    IF f.process = "client_side"
    THEN [raised |-> "none", links |-> remove_client_side_links(links)]
    ELSE IF f.process = "exclude" THEN exclude_filter_process(links, exclude)
    ELSE IF f.process = "drop_video"
    THEN [raised |-> "none", links |-> separator_process(links).other]
    ELSE [raised |-> "none", links |-> links]

SetStat(d, k, v) == [x \in DOMAIN d \cup {k} |-> IF x = k THEN v ELSE d[x]]

\* the stats after one filter removed removed_count records
attribute(d, filter_name, removed_count) ==
    IF Contains(<<"ClientSide">>, filter_name)
    THEN SetStat(d, "client_side_links", removed_count)
    ELSE IF Contains(<<"Exclude">>, filter_name)
    THEN SetStat(d, "excluded_links", removed_count)
    ELSE d

\* for f in self.filters, from the k-th filter on
RECURSIVE run_filters(_, _, _, _, _)
run_filters(fs, k, links, d, exclude) ==
    IF k > Len(fs) THEN [raised |-> "none", links |-> links, d |-> d]
    ELSE With(filter_process(fs[k], links, exclude), LAMBDA r :
            IF r.raised # "none"
            THEN [raised |-> r.raised, links |-> <<>>, d |-> d]
            ELSE run_filters(fs, k + 1, r.links,
                             attribute(d, fs[k].name, Len(links) - Len(r.links)),
                             exclude))

\* link['date'] = self.date_parser.parse(link['body'], link['href'])
parse_dates(links) ==
    [k \in 1..Len(links) |->
        WithDate(links[k], date_of(GetOr(links[k], "body"),
                                   GetOr(links[k], "href")))]

\* ScraperService.run after a successful fetch: what it raises or writes
scraper_run(links, fs, exclude) ==
    With(run_filters(fs, 1, links, [total_links |-> Len(links)], exclude),
         LAMBDA r :
            IF r.raised # "none"
            THEN [raised |-> r.raised, video |-> <<>>, minutes |-> <<>>,
                  d |-> NoStats]
            ELSE With(separator_process(r.links), LAMBDA split :
                    [raised |-> "none", video |-> split.video,
                     minutes |-> parse_dates(split.other),
                     d |-> SetStat(SetStat(r.d, "video_links", Len(split.video)),
                                   "minutes_links", Len(split.other))]))

\* JsonIO.load: [] when the file is missing or unreadable
json_load(file) == IF file.kind = "list" THEN file.items ELSE <<>>

\* DownloaderService._prepare_url
prepare_url(href) ==
    IF Contains(<<"drive.google.com">>, href)
       /\ Contains(<<"/", "file", "/", "d", "/">>, href)
    THEN google_drive_to_download_url(href)
    ELSE urljoin(BASE_URL, href)

\* ExcludeListFilter.add_url: idempotent, persisted at once
add_url(url, file) == append_to_url_exclude_list(url, file)

\* PdfRepository.save_pdf
save_pdf(content, date_str, dir) == save_data(content, date_str, dir)

\* DownloaderService._download_pdf: the bytes or None, the exclude list after
download_pdf(href, resp, exclude) ==
    IF resp.exc # "none" \/ resp.status >= 400
    THEN [content |-> None, exclude |-> exclude, url |-> prepare_url(href),
          added |-> <<>>]
    ELSE IF is_valid_pdf(resp.content)
    THEN [content |-> resp.content, exclude |-> exclude,
          url |-> prepare_url(href), added |-> <<>>]
    ELSE [content |-> None, exclude |-> add_url(href, exclude),
          url |-> prepare_url(href), added |-> <<href>>]

\* the links file an earlier run can have left
PriorLinksFiles ==
    { Absent,
      JsonList(<<[href |-> HRel, body |-> Body1, date |-> D1]>>),
      JsonList(<<[href |-> HRel2, date |-> <<>>],
                 [href |-> HDrive, body |-> Body1, date |-> D2]>>) }

AppInit ==
    /\ pc = "start"
    /\ exitCode = -1
    /\ linksFile \in PriorLinksFiles
    /\ videoFile = Absent
    /\ statsLog = Absent
    /\ excludeFile \in {Absent} \cup
                       {JsonList(l) : l \in SeqsUpTo({HRel}, MaxExclude)}
    /\ page \in PageResponses
    /\ files = EmptyDir
    /\ exceptionDir = [exists |-> FALSE, files |-> EmptyDir]
    /\ idx = 0
    /\ fetched = <<>>
    /\ stored = <<>>
    /\ last = NoOp
    /\ filters = <<>>
    /\ stages = <<>>
    /\ stats = NoStats
    /\ written = {}

\* main(): scraper = ScraperService(); scraper.add_filter(...) three times
AppConfigure ==
    /\ pc = "start"
    /\ \E v \in VideoFilterProcesses :
          filters' = <<FilterObj(ClientSideFilter, "client_side"),
                       FilterObj(ExcludeListFilter, "exclude"),
                       FilterObj(VideoLinkFilter, v)>>
    /\ stages' = <<"scraper">>
    /\ pc' = "scraper"
    /\ last' = [NoOp EXCEPT !.op = "add_filter"]
    /\ UNCHANGED <<exitCode, linksFile, excludeFile, videoFile, statsLog, page,
                   stats, written, downloadVars>>

\* scraper.run(): the fetch raises RuntimeError, run() logs it and returns
AppScraperFetchFails ==
    /\ pc = "scraper"
    /\ fetch_html(page).raised # "none"
    /\ pc' = "downloader"
    /\ stages' = Append(stages, "downloader")
    /\ last' = [NoOp EXCEPT !.op = "scraper.run",
                            !.raised = fetch_html(page).raised]
    /\ UNCHANGED <<exitCode, linksFile, excludeFile, videoFile, statsLog, page,
                   filters, stats, written, downloadVars>>

\* scraper.run(): filters, split, dates, the two JSON files, the stats row
AppScraperRuns ==
    /\ pc = "scraper"
    /\ fetch_html(page).raised = "none"
    /\ \E r \in {scraper_run(fetch_html(page).links, filters, excludeFile)} :
          IF r.raised # "none"
          THEN /\ pc' = "exit"
               /\ exitCode' = 1
               /\ last' = [NoOp EXCEPT !.op = "scraper.run", !.raised = r.raised]
               /\ UNCHANGED <<linksFile, videoFile, statsLog, stats, written,
                              stages>>
          ELSE /\ videoFile' = JsonList(r.video)
               /\ linksFile' = JsonList(r.minutes)
               /\ stats' = r.d
               /\ statsLog' = log_link_stats_csv(r.d, statsLog, Today)
               /\ written' = {"video", "links", "stats"}
               /\ pc' = "downloader"
               /\ stages' = Append(stages, "downloader")
               /\ last' = [NoOp EXCEPT !.op = "scraper.run"]
               /\ UNCHANGED exitCode
    /\ UNCHANGED <<excludeFile, page, filters, downloadVars>>

\* downloader.run(): links = self.storage.load(...); if not links: return
AppDownloaderStarts ==
    /\ pc = "downloader"
    /\ IF json_load(linksFile) = <<>>
       THEN pc' = "extractor" /\ stages' = Append(stages, "extractor")
       ELSE pc' = "dl_loop" /\ UNCHANGED stages
    /\ idx' = 0
    /\ last' = [NoOp EXCEPT !.op = "downloader.run"]
    /\ UNCHANGED <<exitCode, linksFile, excludeFile, videoFile, statsLog, page,
                   filters, stats, written, files, exceptionDir, fetched,
                   stored>>

\* if not href or not date_str: continue
AppSkipItem ==
    /\ pc = "dl_loop"
    /\ idx < Len(linksFile.items)
    /\ LET item == linksFile.items[idx + 1]
       IN  Falsy(item, "href") \/ Falsy(item, "date")
    /\ idx' = idx + 1
    /\ last' = [NoOp EXCEPT !.op = "skip", !.n = idx + 1]
    /\ UNCHANGED <<pc, exitCode, linksFile, excludeFile, videoFile, statsLog,
                   page, filters, stages, stats, written, files, exceptionDir,
                   fetched, stored>>

\* if href in self.exclude_filter.exclude_items: continue
AppExcludedItem ==
    /\ pc = "dl_loop"
    /\ idx < Len(linksFile.items)
    /\ LET item == linksFile.items[idx + 1]
       IN  /\ ~Falsy(item, "href")
           /\ ~Falsy(item, "date")
           /\ item.href \in Range(excludeFile.items)
    /\ idx' = idx + 1
    /\ last' = [NoOp EXCEPT !.op = "excluded", !.n = idx + 1]
    /\ UNCHANGED <<pc, exitCode, linksFile, excludeFile, videoFile, statsLog,
                   page, filters, stages, stats, written, files, exceptionDir,
                   fetched, stored>>

\* content = self._download_pdf(href); if content: save_pdf(content, date_str)
AppDownloadItem ==
    /\ pc = "dl_loop"
    /\ idx < Len(linksFile.items)
    /\ LET item == linksFile.items[idx + 1]
       IN  /\ ~Falsy(item, "href")
           /\ ~Falsy(item, "date")
           /\ item.href \notin Range(excludeFile.items)
           /\ \E resp \in Responses :
                \E r \in {download_pdf(item.href, resp, excludeFile)} :
                  LET did == [NoOp EXCEPT !.n = idx + 1, !.href = item.href,
                                 !.date = item.date, !.added = r.added]
                  IN  /\ excludeFile' = r.exclude
                      /\ fetched' = Append(fetched, <<item.href, Outcome(resp)>>)
                      /\ IF r.content # None /\ r.content # ""
                         THEN \E sv \in {save_pdf(r.content, item.date, files)} :
                                /\ files' = sv.dir
                                /\ stored' = Append(stored,
                                                    <<r.content, item.date>>)
                                /\ last' = [did EXCEPT !.op = "save_data",
                                              !.content = r.content,
                                              !.ret = sv.ret,
                                              !.wrote = sv.wrote,
                                              !.index = sv.index]
                         ELSE /\ UNCHANGED <<files, stored>>
                              /\ last' = [did EXCEPT !.op = "failed"]
    /\ idx' = idx + 1
    /\ UNCHANGED <<pc, exitCode, linksFile, videoFile, statsLog, page, filters,
                   stages, stats, written, exceptionDir>>

\* the loop is over: main() goes on to TextExtractorService
AppDownloaderEnds ==
    /\ pc = "dl_loop"
    /\ idx = Len(linksFile.items)
    /\ pc' = "extractor"
    /\ stages' = Append(stages, "extractor")
    /\ last' = [NoOp EXCEPT !.op = "downloader.run"]
    /\ UNCHANGED <<exitCode, linksFile, excludeFile, videoFile, statsLog, page,
                   filters, stats, written, downloadVars>>

\* extractor.run(); "Application finished successfully."
AppExtractor ==
    /\ pc = "extractor"
    /\ pc' = "exit"
    /\ exitCode' = 0
    /\ last' = [NoOp EXCEPT !.op = "extractor.run"]
    /\ UNCHANGED <<linksFile, excludeFile, videoFile, statsLog, page, filters,
                   stages, stats, written, downloadVars>>

AppNext ==
    \/ AppConfigure
    \/ AppScraperFetchFails
    \/ AppScraperRuns
    \/ AppDownloaderStarts
    \/ AppSkipItem
    \/ AppExcludedItem
    \/ AppDownloadItem
    \/ AppDownloaderEnds
    \/ AppExtractor

AppSpec == AppInit /\ [][AppNext]_vars

----------------------------------------------------------------------------
(* The list functions of the classification, each called on its own *)

HScript == <<"JavaScript:", "void", "(", "0", ")">>
HTel == <<"Tel:", "6", "1", "7">>
HInPage == <<"/", "page", "#", "top">>
HShort == <<"https:", "/", "/", "youtu", ".be", "/", "abc">>
HWord == <<"/", "files", "/", "youtube", "-", "notes.pdf">>

\* anchors for the filters and the split: every prefix, a prefix in mid-href,
\* both video hosts and the bare word
FilterAnchors ==
    { [href |-> HMail,   body |-> <<"Email">>],
      [href |-> HAnchor, body |-> <<"Skip">>],
      [href |-> HScript, body |-> <<"Print">>],
      [href |-> HTel,    body |-> <<"Call">>],
      [href |-> HInPage, body |-> <<"Top">>],
      [href |-> HVideo,  body |-> <<"Hearing">>],
      [href |-> HShort,  body |-> <<"Hearing">>],
      [href |-> HWord,   body |-> Body1],
      [href |-> HRel,    body |-> BodyDated] }

BodyNoYear == <<"Minutes", " ", "march", " ", "3">>
BodyYearFar == <<"FEBRUARY", ",", " ", "1", "4", "th", " ", "2", "0", "2", "0">>

HNum4 == <<"/", "0", "2", "-", "0", "2", "-", "2", "0", "2", "2", "/", "file">>
HNum3 == <<"/", "1", "-", "2", "-", "1", "2", "3", "/", "x.pdf">>
HIso == <<"/", "2", "0", "2", "3", "-", "0", "1", "-", "1", "5", "-", "minutes">>
HMonth == <<"/", "July", "%20", "4", "%20", "2", "0", "2", "1", "/", "x.pdf">>
HBoth == <<"/", "july", "-", "4", "-", "2", "0", "2", "1", "/", "0", "2", "-",
           "0", "2", "-", "2", "2">>

\* link texts and hrefs with and without date cues
DateBodies == {Body1, BodyDated, BodyNoYear, BodyYearFar}
DateHrefs == {HRel, HNum4, HNumeric, HNum3, HIso, HMonth, HBoth}

DateLinks == {[href |-> h, body |-> b] : h \in DateHrefs, b \in DateBodies}

UnitInit ==
    /\ pc = "start"
    /\ exitCode = -1
    /\ page \in {[NoPage EXCEPT !.links = l] :
                    l \in SeqsUpTo(FilterAnchors, MaxLinks)
                          \cup {<<d>> : d \in DateLinks}}
    /\ linksFile = Absent
    /\ videoFile = Absent
    /\ statsLog = Absent
    /\ excludeFile = Absent
    /\ files = EmptyDir
    /\ exceptionDir = [exists |-> FALSE, files |-> EmptyDir]
    /\ idx = 0
    /\ fetched = <<>>
    /\ stored = <<>>
    /\ last = NoOp
    /\ filters = <<>>
    /\ stages = <<>>
    /\ stats = NoStats
    /\ written = {}

\* what a call leaves alone
unitFrame == <<exitCode, page, statsLog, excludeFile, filters, stages, stats,
               written, downloadVars>>

\* cleaned = remove_client_side_links(links_list)
CallRemoveClientSideLinks ==
    /\ pc = "start"
    /\ pc' = "returned"
    /\ linksFile' = JsonList(remove_client_side_links(page.links))
    /\ last' = [NoOp EXCEPT !.op = "remove_client_side_links"]
    /\ UNCHANGED <<videoFile, unitFrame>>

\* video_links, minutes_links = extract_hearing_video_links(links_list)
CallExtractHearingVideoLinks ==
    /\ pc = "start"
    /\ pc' = "returned"
    /\ \E r \in {extract_hearing_video_links(page.links)} :
          /\ videoFile' = JsonList(r.video)
          /\ linksFile' = JsonList(r.other)
    /\ last' = [NoOp EXCEPT !.op = "extract_hearing_video_links"]
    /\ UNCHANGED unitFrame

\* video_links, other_links = VideoLinkSeparator().process(links)
CallSeparatorProcess ==
    /\ pc = "start"
    /\ pc' = "returned"
    /\ \E r \in {separator_process(page.links)} :
          /\ videoFile' = JsonList(r.video)
          /\ linksFile' = JsonList(r.other)
    /\ last' = [NoOp EXCEPT !.op = "VideoLinkSeparator.process"]
    /\ UNCHANGED unitFrame

\* minutes_links = extract_date(minutes_links)
CallExtractDate ==
    /\ pc = "start"
    /\ pc' = "returned"
    /\ linksFile' = JsonList(extract_date(page.links))
    /\ last' = [NoOp EXCEPT !.op = "extract_date"]
    /\ UNCHANGED <<videoFile, unitFrame>>

UnitNext ==
    \/ CallRemoveClientSideLinks
    \/ CallExtractHearingVideoLinks
    \/ CallSeparatorProcess
    \/ CallExtractDate

UnitSpec == UnitInit /\ [][UnitNext]_vars

----------------------------------------------------------------------------
(* save_data called on a download directory earlier runs have filled *)

MaxSaves == 2

\* the file names a directory can hold before the calls
StoreNames ==
    {candidate(D1, 1), candidate(D1, 2), candidate(D1, 3), candidate(D2, 1)}

\* directories with and without gaps and repeated bytes
StoreDirs ==
    UNION {[N -> {PdfA, PdfB}] : N \in SUBSET StoreNames}

StoreInit ==
    /\ pc = "start"
    /\ exitCode = -1
    /\ files \in StoreDirs
    /\ linksFile = Absent
    /\ excludeFile = Absent
    /\ exceptionDir = [exists |-> FALSE, files |-> EmptyDir]
    /\ idx = 0
    /\ fetched = <<>>
    /\ stored = <<>>
    /\ last = NoOp
    /\ ScrapeIdle

\* save_data(file_content, date_str)
CallSaveData ==
    /\ Len(stored) < MaxSaves
    /\ \E file_content \in {PdfA, PdfB, PdfC} : \E date_str \in {D1, D2} :
          \E sv \in {save_data(file_content, date_str, files)} :
             /\ files' = sv.dir
             /\ stored' = Append(stored, <<file_content, date_str>>)
             /\ last' = [NoOp EXCEPT !.op = "save_data", !.date = date_str,
                                     !.content = file_content, !.ret = sv.ret,
                                     !.wrote = sv.wrote, !.index = sv.index]
    /\ UNCHANGED <<pc, exitCode, linksFile, excludeFile, exceptionDir, idx,
                   fetched, scrapeVars>>

StoreNext == CallSaveData

StoreSpec == StoreInit /\ [][StoreNext]_vars

----------------------------------------------------------------------------
(* Classification runs one after the other, on one stats log *)

MaxRuns == 3

\* what the page answers on the day of a run
LogPages ==
    { [exc |-> "none", status |-> 500, empty |-> FALSE, links |-> <<>>],
      [exc |-> "none", status |-> 200, empty |-> FALSE,
       links |-> <<[href |-> HRel, body |-> BodyDated]>>],
      [exc |-> "none", status |-> 200, empty |-> FALSE,
       links |-> <<[href |-> HMail, body |-> <<"Email">>],
                   [href |-> HVideo, body |-> <<"Hearing">>],
                   [href |-> HRel, body |-> BodyDated]>>] }

LogExcludeFiles == {Absent, JsonList(<<>>), JsonList(<<HRel>>)}

\* the filters a ScraperService can have been given
FilterSets ==
    { <<>>,
      <<FilterObj(ClientSideFilter, "client_side")>>,
      <<FilterObj(ClientSideFilter, "client_side"),
        FilterObj(ExcludeListFilter, "exclude"),
        FilterObj(VideoLinkFilter, "pass")>> }

\* StatsLogger.log_stats
log_stats(d, csv) == log_link_stats_csv(d, csv, Today)

LogInit ==
    /\ pc = "start"
    /\ exitCode = -1
    /\ page = NoPage
    /\ linksFile = Absent
    /\ videoFile = Absent
    /\ statsLog = Absent
    /\ excludeFile \in LogExcludeFiles
    /\ files = EmptyDir
    /\ exceptionDir = [exists |-> FALSE, files |-> EmptyDir]
    /\ idx = 0
    /\ fetched = <<>>
    /\ stored = <<>>
    /\ last = NoOp
    /\ filters = <<>>
    /\ stages = <<>>
    /\ stats = NoStats
    /\ written = {}

\* one run of scrape_licensing_board.py; stages lists how the runs ended
LogScriptRun ==
    /\ Len(stages) < MaxRuns
    /\ \E pg \in LogPages :
          /\ page' = pg
          /\ \E r \in {scrape_main(pg, excludeFile)} :
                IF r.raised # "none"
                THEN /\ exitCode' = 1
                     /\ stages' = Append(stages, "aborted")
                     /\ last' = [NoOp EXCEPT !.op = "scrape",
                                             !.raised = r.raised]
                     /\ UNCHANGED <<linksFile, videoFile, statsLog, stats,
                                    written>>
                ELSE /\ exitCode' = 0
                     /\ stages' = Append(stages, "logged")
                     /\ videoFile' = JsonList(r.video)
                     /\ linksFile' = JsonList(r.minutes)
                     /\ stats' = r.link_stats
                     /\ statsLog' = log_link_stats_csv(r.link_stats, statsLog,
                                                       Today)
                     /\ written' = {"video", "links", "stats"}
                     /\ last' = [NoOp EXCEPT !.op = "scrape"]
    /\ filters' = <<>>
    /\ UNCHANGED <<pc, excludeFile, downloadVars>>

\* one ScraperService.run() with some filters registered
LogScraperRun ==
    /\ Len(stages) < MaxRuns
    /\ \E pg \in LogPages : \E fs \in FilterSets :
          /\ page' = pg
          /\ filters' = fs
          /\ \E r \in {IF fetch_html(pg).raised # "none"
                        THEN [raised |-> "RuntimeError"]
                        ELSE scraper_run(fetch_html(pg).links, fs, excludeFile)} :
                IF r.raised # "none"
                THEN /\ stages' = Append(stages, "aborted")
                     /\ last' = [NoOp EXCEPT !.op = "scraper.run",
                                             !.raised = r.raised]
                     /\ UNCHANGED <<linksFile, videoFile, statsLog, stats,
                                    written>>
                ELSE /\ stages' = Append(stages, "logged")
                     /\ videoFile' = JsonList(r.video)
                     /\ linksFile' = JsonList(r.minutes)
                     /\ stats' = r.d
                     /\ statsLog' = log_stats(r.d, statsLog)
                     /\ written' = {"video", "links", "stats"}
                     /\ last' = [NoOp EXCEPT !.op = "scraper.run"]
    /\ UNCHANGED <<pc, exitCode, excludeFile, downloadVars>>

LogNext == LogScriptRun \/ LogScraperRun

LogSpec == LogInit /\ [][LogNext]_vars

----------------------------------------------------------------------------
(* Claims about the download run (Spec) *)

Dates == {D1, D2}

\* the stored files of one date: its base name and its _vN names
VersionsOf(dir, date) ==
    {n \in DOMAIN dir :
        \E k \in 1..(Cardinality(DOMAIN dir) + MaxLinks) : n = candidate(date, k)}

\* the lowest index whose file name is free
LowestFree(dir, date) ==
    CHOOSE k \in 1..(Cardinality(DOMAIN dir) + 1) :
        /\ candidate(date, k) \notin DOMAIN dir
        /\ \A j \in 1..(k - 1) : candidate(date, j) \in DOMAIN dir

\* the step is a call of save_data
SaveStep == idx' = idx + 1 /\ last'.op = "save_data"

WellFormed(item) ==
    /\ {"href", "body", "date"} \subseteq DOMAIN item
    /\ item.href # <<>>
    /\ item.date # <<>>

Hrefs(s) == [k \in 1..Len(s) |-> s[k][1]]
Hrefs2(s) == [k \in 1..Len(s) |-> s[k].href]

IsPdfFetch(f) == f[2] = "pdf"
IsInvalidFetch(f) == f[2] = "invalid_pdf"

\* C1: in every state of the PDF directory reachable by a download run
\* (save_data calls, then pdf_exceptions) from an empty directory, no two
\* files stored for one date have identical content.
C1_DistinctContentPerDate ==
    \A d \in Dates : \A n1, n2 \in VersionsOf(files, d) :
        files[n1] = files[n2] => n1 = n2

\* The same while only save_data has written (before pdf_exceptions).
C1_DistinctBeforeExceptions ==
    pc # "exit" => C1_DistinctContentPerDate

\* C2: save_data is idempotent on stored content: when the incoming bytes
\* equal the content of a file stored for that date, nothing is written, the
\* directory is unchanged and that file's path is returned; save(A), save(B),
\* save(A) under one date ends with two files, the third call returning the
\* base file.
C2_SaveIdempotent ==
    /\ [][(/\ SaveStep
           /\ \E n \in VersionsOf(files, last'.date) :
                  files[n] = last'.content)
          => (/\ files' = files
              /\ ~last'.wrote
              /\ last'.ret \in VersionsOf(files, last'.date)
              /\ files[last'.ret] = last'.content)]_vars
    /\ [](/\ last.op = "save_data"
          /\ Len(stored) = 3
          /\ stored[1] = stored[3]
          /\ stored[1][1] # stored[2][1]
          /\ stored[1][2] = stored[2][2]
          => /\ Cardinality(VersionsOf(files, last.date)) = 2
             /\ DOMAIN files = VersionsOf(files, last.date)
             /\ last.ret = candidate(last.date, 1))

C2_Witness ==
    /\ pc = "loop"
    /\ last.op = "save_data"
    /\ ~last.wrote
    /\ stored = <<<<PdfA, D1>>, <<PdfB, D1>>, <<PdfA, D1>>>>
    /\ last.ret = candidate(D1, 1)
    /\ DOMAIN files = {candidate(D1, 1), candidate(D1, 2)}

\* C3: bytes whose hash differs from every file stored for the date are
\* written to the lowest-index file name that does not exist yet (index 1 the
\* base name, index N >= 2 the _vN name), and no save_data call overwrites,
\* modifies or removes a file that existed, of that or any other date.
C3_WriteLowestFree ==
    [][SaveStep =>
        /\ \A n \in DOMAIN files : n \in DOMAIN files' /\ files'[n] = files[n]
        /\ (\A n \in VersionsOf(files, last'.date) : files[n] # last'.content)
             => /\ last'.wrote
                /\ last'.index = LowestFree(files, last'.date)
                /\ last'.ret = candidate(last'.date, last'.index)
                /\ files' = (last'.ret :> last'.content) @@ files
                /\ DOMAIN files' = DOMAIN files \cup {last'.ret}]_vars

C3_Witness ==
    /\ last.op = "save_data"
    /\ last.wrote
    /\ last.content = PdfC
    /\ last.ret = candidate(D1, 3)
    /\ files = (candidate(D1, 1) :> PdfA) @@ (candidate(D1, 2) :> PdfB)
               @@ (candidate(D1, 3) :> PdfC)

\* C4: when the bytes fetched for a record with href h fail PDF validation,
\* the persisted exclude list holds exactly h when the item finishes and
\* nothing was stored for it, so the exact-match exclude filter of a later
\* classification run removes the record.
C4_InvalidPdfExcluded ==
    (last.op = "failed" /\ fetched[Len(fetched)][2] = "invalid_pdf")
    => /\ excludeFile.kind = "list"
       /\ last.href \in Range(excludeFile.items)
       /\ remove_exclude_links(<<linksFile.items[last.n]>>, excludeFile).links
            = <<>>

\* Where C4 does hold: hrefs that pull_data does not rewrite.
C4_ExcludedOffDrive ==
    (/\ last.op = "failed"
     /\ fetched[Len(fetched)][2] = "invalid_pdf"
     /\ ~is_google_drive_url(last.href))
    => /\ excludeFile.kind = "list"
       /\ last.href \in Range(excludeFile.items)
       /\ remove_exclude_links(<<linksFile.items[last.n]>>, excludeFile).links
            = <<>>

\* C5: a failed fetch or an invalid PDF never aborts the batch: when the run
\* ends, every well-formed record of the list was attempted, in list order,
\* and every fetch that gave a valid PDF was passed to the PDF store.
C5_BatchNeverAborted ==
    (pc = "exit" /\ linksFile.kind = "list")
    => /\ Hrefs(fetched) = Hrefs2(SelectSeq(linksFile.items, WellFormed))
       /\ Len(stored) = Len(SelectSeq(fetched, IsPdfFetch))

\* Where C5 does hold: the runs in which read_data accepted the list.
C5_HoldsWhenRead ==
    (pc = "exit" /\ exitCode = 0)
    => /\ Hrefs(fetched) = Hrefs2(SelectSeq(linksFile.items, WellFormed))
       /\ Len(stored) = Len(SelectSeq(fetched, IsPdfFetch))

\* C8: a malformed record of the links file (missing or empty href or date,
\* or missing a required field) is skipped without a fetch, and every other
\* record of the file is still processed: the run ends normally with the
\* whole list handled and one fetch per well-formed record.
C8_MalformedSkipped ==
    (pc = "exit" /\ linksFile.kind = "list")
    => /\ exitCode = 0
       /\ idx = Len(linksFile.items)
       /\ Len(fetched) = Len(SelectSeq(linksFile.items, WellFormed))

\* C9: adding URL u to an exclude list file holding a duplicate-free list L
\* leaves the file equal to L when u is in L and to L with u appended
\* otherwise; so no entry appears twice, no earlier entry is lost and adding
\* a URL twice leaves the size unchanged.
C9_AddIdempotent ==
    [][(/\ idx' = idx + 1
        /\ last'.added # <<>>
        /\ excludeFile.kind = "list"
        /\ NoDup(excludeFile.items))
       => LET u == last'.added[1]
              L == excludeFile.items
          IN  /\ excludeFile' = JsonList(IF u \in Range(L) THEN L
                                         ELSE Append(L, u))
              /\ NoDup(excludeFile'.items)
              /\ SubSeq(excludeFile'.items, 1, Len(L)) = L]_vars

C9_Witness ==
    /\ Len(fetched) = 3
    /\ \A k \in 1..3 : fetched[k] = <<HRel, "invalid_pdf">>
    /\ last.added = <<HRel>>
    /\ excludeFile = JsonList(<<HRel>>)

----------------------------------------------------------------------------
(* Claims about the classification run (ScrapeSpec) and the app (AppSpec) *)

\* total_links = client_side_links + excluded_links + video_links +
\* minutes_links, a key the record lacks counting as 0 as in the CSV row
Conserved(d) ==
    StatOf(d, "total_links")
        = StatOf(d, "client_side_links") + StatOf(d, "excluded_links")
          + StatOf(d, "video_links") + StatOf(d, "minutes_links")

\* C6: when the initial page fetch fails (network error, non-success status)
\* or the body is empty, the run of the app is aborted: no link-records
\* file, video-links file or stats row is written, no stage after the
\* scraper is started, and a run that has ended has ended with a non-zero
\* exit code.
C6_PageFailureAborts ==
    fetch_html(page).raised # "none"
    => /\ written = {}
       /\ Range(stages) \subseteq {"scraper"}
       /\ (pc = "exit" => exitCode # 0)

\* C6, the script: scrape_licensing_board.py main() does abort on a failed
\* or empty page fetch, with exit code 1 and nothing written.
C6_ScriptAbortsOnPageFailure ==
    (pc = "exit" /\ get_html_content(page).raised # "none")
    => (exitCode = 1 /\ written = {} /\ linksFile = Absent
        /\ videoFile = Absent)

\* C7: a classification run whose page was fetched and whose exclude-list
\* file is absent, is not valid JSON or is JSON that is not a list never
\* treats the file as an empty list: the run ends with a non-zero exit code
\* and writes neither the link-records file nor a stats row.
C7_MalformedExcludeAborts ==
    (pc = "exit" /\ get_html_content(page).raised = "none"
     /\ excludeFile.kind # "list")
    => (exitCode # 0 /\ written = {} /\ linksFile = Absent /\ stats = NoStats)

\* C7, the part that holds: an absent file, invalid JSON and a JSON number
\* do abort the run.
C7_UnreadableExcludeAborts ==
    (pc = "exit" /\ get_html_content(page).raised = "none"
     /\ excludeFile.kind \in {"absent", "invalid_json", "number"})
    => (exitCode # 0 /\ written = {} /\ linksFile = Absent /\ stats = NoStats)

\* C10: the stats record a classification run of the app writes is
\* conserved: total_links = client_side_links + excluded_links + video_links
\* + minutes_links.
C10_CountsConserved == ("stats" \in written) => Conserved(stats)

\* C10, the script: the stats record of scrape_licensing_board.py main() is
\* conserved in every run that completes.
C10_ScriptConserves == (pc = "exit" /\ exitCode = 0) => Conserved(stats)

\* C10, the app when every removal is by a filter whose class name maps to
\* a bucket: the record is conserved.
C10_ConservedWhenAttributed ==
    ("stats" \in written /\ filters[3].process = "pass") => Conserved(stats)

----------------------------------------------------------------------------
(* Claims about the list functions (UnitSpec) *)

\* the j-th smallest element of a set of positions
Nth(S, j) == CHOOSE k \in S : Cardinality({x \in S : x < k}) = j - 1

\* out is s restricted to the positions in S, in the order of s
IsRestriction(out, s, S) ==
    /\ Len(out) = Cardinality(S)
    /\ \A j \in 1..Len(out) : out[j] = s[Nth(S, j)]

\* the lower-cased href holds one of the patterns somewhere
HoldsOneOf(href, pats) ==
    \E pat \in pats : \E p \in 1..Len(href) :
        /\ p + Len(pat) - 1 <= Len(href)
        /\ \A i \in 1..Len(pat) : lower(href[p + i - 1]) = pat[i]

\* the video-host substrings of the script and of the app's separator
ScriptHosts == {<<"youtube", ".com">>, <<"youtu", ".be">>, <<"youtube">>}
SeparatorHosts == {<<"youtube", ".com">>, <<"youtu", ".be">>}

HostsOf(op) ==
    IF op = "extract_hearing_video_links" THEN ScriptHosts ELSE SeparatorHosts

\* C11: the video/document split is a total partition: the video output is
\* the input restricted to the records whose lower-cased href holds a
\* video-host substring, the other output is the input restricted to the
\* rest, both in input order, and the two lengths add up to the input's.
C11_SplitPartitions ==
    (pc = "returned"
     /\ last.op \in {"extract_hearing_video_links", "VideoLinkSeparator.process"})
    => LET inp == page.links
           V == {k \in 1..Len(inp) : HoldsOneOf(inp[k].href, HostsOf(last.op))}
       IN  /\ IsRestriction(videoFile.items, inp, V)
           /\ IsRestriction(linksFile.items, inp, (1..Len(inp)) \ V)
           /\ Len(videoFile.items) + Len(linksFile.items) = Len(inp)

C11_Witness ==
    /\ pc = "returned"
    /\ last.op = "extract_hearing_video_links"
    /\ page.links = <<[href |-> HWord, body |-> Body1],
                      [href |-> HRel, body |-> BodyDated],
                      [href |-> HVideo, body |-> <<"Hearing">>]>>
    /\ Len(videoFile.items) = 2
    /\ Len(linksFile.items) = 1

\* what each strategy yields on the texts of DateBodies and DateHrefs, read
\* off the three patterns: <<>> is a component the strategy does not yield
Cue(m, d, y) == [month |-> m, day |-> d, year |-> y]
NoCue == Cue(<<>>, <<>>, <<>>)

BodyCue(b) ==
    CASE b = BodyDated -> Cue(<<"0", "3">>, <<"0", "3">>, <<"2", "0", "2", "3">>)
      [] b = BodyNoYear -> Cue(<<"0", "3">>, <<"0", "3">>, <<>>)
      [] b = BodyYearFar -> Cue(<<"0", "2">>, <<"1", "4">>, <<>>)
      [] OTHER -> NoCue

NumericCue(h) ==
    CASE h = HNum4 -> Cue(<<"0", "2">>, <<"0", "2">>, <<"2", "0", "2", "2">>)
      [] h = HNumeric -> Cue(<<"0", "7">>, <<"0", "4">>, <<"2", "0", "2", "3">>)
      [] h = HNum3 -> Cue(<<"0", "1">>, <<"0", "2">>, <<"1", "2", "3">>)
      [] h = HIso -> Cue(<<"2", "3">>, <<"0", "1">>, <<"2", "0", "1", "5">>)
      [] h = HBoth -> Cue(<<"0", "2">>, <<"0", "2">>, <<"2", "0", "2", "2">>)
      [] OTHER -> NoCue

NamedMonthCue(h) ==
    CASE h \in {HMonth, HBoth} ->
            Cue(<<"0", "7">>, <<"0", "4">>, <<"2", "0", "2", "1">>)
      [] OTHER -> NoCue

\* the value of the earliest strategy that yields the component
Earliest(a, b, c, placeholder) ==
    IF a # <<>> THEN a ELSE IF b # <<>> THEN b
    ELSE IF c # <<>> THEN c ELSE <<placeholder>>

\* extract_date was called on one link of DateLinks
DatedOne ==
    /\ pc = "returned"
    /\ last.op = "extract_date"
    /\ Len(page.links) = 1
    /\ page.links[1] \in DateLinks

\* C12: the strategies apply in the order body, numeric URL, named-month
\* URL, and each component of the date is the value of the earliest
\* strategy that yields it, for every body and href of DateLinks.
C12_EarliestStrategyWins ==
    DatedOne
    => LET bc == BodyCue(page.links[1].body)
           nc == NumericCue(page.links[1].href)
           mc == NamedMonthCue(page.links[1].href)
       IN  linksFile.items[1].date
             = Earliest(bc.year, nc.year, mc.year, "yyyy") \o <<"-">>
               \o Earliest(bc.month, nc.month, mc.month, "mm") \o <<"-">>
               \o Earliest(bc.day, nc.day, mc.day, "dd")

\* body "march 3" and href /02-02-2022/file: month and day of the body, year
\* of the href
C12_Witness ==
    /\ DatedOne
    /\ page.links[1] = [href |-> HNum4, body |-> BodyNoYear]
    /\ linksFile.items[1].date
         = <<"2", "0", "2", "2", "-", "0", "3", "-", "0", "3">>

\* C12, the example of the specification: body "March 3rd, 2023" with href
\* /02-02-2022/file resolves to 2023-03-03.
C12_BodyWinsOverHref ==
    (DatedOne /\ page.links[1] = [href |-> HNum4, body |-> BodyDated])
    => linksFile.items[1].date = D1

AllDigits(t) == \A k \in 1..Len(t) : t[k] \in Digits

\* d reads YYYY-MM-DD: four digits or yyyy, two digits or mm, two digits or dd
DateShaped(d) ==
    \E ly \in {1, 4} : \E lm \in {1, 2} : \E ld \in {1, 2} :
        /\ Len(d) = ly + lm + ld + 2
        /\ d[ly + 1] = "-"
        /\ d[ly + lm + 2] = "-"
        /\ LET y == SubSeq(d, 1, ly)
               m == SubSeq(d, ly + 2, ly + lm + 1)
               dd == SubSeq(d, ly + lm + 3, Len(d))
           IN  /\ y = <<"yyyy">> \/ (Len(y) = 4 /\ AllDigits(y))
               /\ m = <<"mm">> \/ (Len(m) = 2 /\ AllDigits(m))
               /\ dd = <<"dd">> \/ (Len(dd) = 2 /\ AllDigits(dd))

Dated == pc = "returned" /\ last.op = "extract_date"

\* C13: extract_date gives every link record a date of the shape
\* YYYY-MM-DD: the year is yyyy or exactly four digits, the month mm or two
\* digits, the day dd or two digits; the date is never absent.
C13_DateShaped ==
    Dated
    => /\ Len(linksFile.items) = Len(page.links)
       /\ \A k \in 1..Len(linksFile.items) :
             /\ "date" \in DOMAIN linksFile.items[k]
             /\ DateShaped(linksFile.items[k].date)

\* C13, the part that holds: the shape is kept for every href whose numeric
\* cue has a year of two or four digits, and a link with no cue at all gets
\* yyyy-mm-dd.
C13_ShapedOffThreeDigitYears ==
    (Dated /\ \A k \in 1..Len(page.links) : page.links[k].href # HNum3)
    => \A k \in 1..Len(linksFile.items) :
          /\ "date" \in DOMAIN linksFile.items[k]
          /\ DateShaped(linksFile.items[k].date)
          /\ (page.links[k] = [href |-> HRel, body |-> Body1]
              => linksFile.items[k].date = D2)

\* the client-side prefixes in the letter cases of FilterAnchors
ClientSideTokens ==
    {"tel:", "Tel:", "mailto:", "MAILTO:", "#", "javascript:", "JavaScript:"}

\* C14: the client-side filter returns the input restricted to the records
\* whose href does not start, in any letter case, with tel:, mailto:, # or
\* javascript:, in input order and unchanged; a prefix in mid-href passes.
C14_ClientSideRemoved ==
    (pc = "returned" /\ last.op = "remove_client_side_links")
    => LET inp == page.links
           K == {k \in 1..Len(inp) :
                    inp[k].href = <<>> \/ inp[k].href[1] \notin ClientSideTokens}
       IN  IsRestriction(linksFile.items, inp, K)

C14_Witness ==
    /\ pc = "returned"
    /\ last.op = "remove_client_side_links"
    /\ page.links = <<[href |-> HMail, body |-> <<"Email">>],
                      [href |-> HInPage, body |-> <<"Top">>],
                      [href |-> HScript, body |-> <<"Print">>]>>
    /\ linksFile.items = <<[href |-> HInPage, body |-> <<"Top">>]>>

----------------------------------------------------------------------------
(* Claims about the stats log (LogSpec) *)

\* the runs so far that reached the logging
Logged == SelectSeq(stages, LAMBDA e : e = "logged")

\* the row of a stats record: the date, then the five counts, 0 for a key
\* the record lacks
RowOf(d, run_date) ==
    <<run_date>>
    \o [k \in 1..5 |->
          IF fieldnames[k + 1] \in DOMAIN d
          THEN ToString(d[fieldnames[k + 1]]) ELSE "0"]

\* one header line, then one six-column row per logged run
LogWellFormed ==
    IF Logged = <<>> THEN statsLog = Absent
    ELSE /\ statsLog.kind = "csv"
         /\ Len(statsLog.items) = 1 + Len(Logged)
         /\ statsLog.items[1] = <<"run_date", "total_links",
                                  "client_side_links", "excluded_links",
                                  "video_links", "minutes_links">>
         /\ \A k \in 2..Len(statsLog.items) :
               /\ Len(statsLog.items[k]) = 6
               /\ statsLog.items[k] # statsLog.items[1]

\* a run that logs appends the row of its stats and rewrites nothing; a run
\* that aborts leaves the log alone
LogStep ==
    IF Len(Logged') = Len(Logged) THEN statsLog' = statsLog
    ELSE /\ statsLog'.items[Len(statsLog'.items)] = RowOf(stats', Today)
         /\ statsLog # Absent
            => SubSeq(statsLog'.items, 1, Len(statsLog.items)) = statsLog.items

\* C15: after any sequence of classification runs the stats log is one
\* header line, written by the first write only, followed by one row per
\* run that logged, each row holding run_date and the five counts in the
\* fixed order with 0 for a key missing from the stats; earlier rows are
\* never rewritten.
C15_AppendOnlyLog == []LogWellFormed /\ [][LogStep]_vars

\* three logged runs, the last one by a scraper without filters, whose
\* stats lack client_side_links and excluded_links
C15_Witness ==
    /\ Len(Logged) = 3
    /\ Len(statsLog.items) = 4
    /\ "excluded_links" \notin DOMAIN stats
    /\ statsLog.items[4] = <<Today, "3", "0", "0", "1", "2">>

----------------------------------------------------------------------------
(* Claims about save_data on any directory (StoreSpec) *)

\* the probe stops at index k of the date: no file there, or the same bytes
StopsAt(dir, date_str, file_content, k) ==
    \/ candidate(date_str, k) \notin DOMAIN dir
    \/ sha256(dir[candidate(date_str, k)]) = sha256(file_content)

\* C16: every call of save_data ends, after at most one probe per stored
\* file and one more: it stops at the first index whose file is absent (and
\* writes there) or holds bytes of the incoming hash (and writes nothing),
\* and never goes past the first absent index.
C16_ProbeStopsFirst ==
    [][LET i == last'.index
           d == last'.date
           c == last'.content
       IN  /\ i \in 1..(Cardinality(DOMAIN files) + 1)
           /\ StopsAt(files, d, c, i)
           /\ \A k \in 1..(i - 1) : ~StopsAt(files, d, c, k)
           /\ \A k \in 1..(i - 1) : candidate(d, k) \in DOMAIN files
           /\ last'.wrote <=> candidate(d, i) \notin DOMAIN files
           /\ last'.ret = candidate(d, i)]_vars

\* _v3 holds the incoming bytes, _v2 is absent: the probe stops at 2, writes
\* there and never looks at _v3
C16_Witness ==
    /\ last.op = "save_data"
    /\ last.index = 2
    /\ last.wrote
    /\ candidate(last.date, 3) \in DOMAIN files
    /\ files[candidate(last.date, 3)] = last.content
    /\ files[candidate(last.date, 2)] = last.content

----------------------------------------------------------------------------
(* Claims about the version indices of a download run (Spec) *)

\* the version indices stored for a date
IndicesOf(dir, date) ==
    {k \in 1..(Cardinality(DOMAIN dir) + MaxLinks) :
        candidate(date, k) \in DOMAIN dir}

\* the distinct contents the run has saved under a date
SavedUnder(date) == {s[1] : s \in {t \in Range(stored) : t[2] = date}}

\* C17: starting from an empty directory, after any sequence of save_data
\* calls the version indices stored for each date are exactly 1..n, n the
\* number of distinct contents saved under the date, and the directory
\* holds nothing else.
C17_IndicesGapFree ==
    (last.op # "pdf_exceptions")
    => /\ \A date \in Dates :
             IndicesOf(files, date) = 1..Cardinality(SavedUnder(date))
       /\ DOMAIN files = UNION {VersionsOf(files, date) : date \in Dates}

\* three saves under one date, two distinct contents, indices {1, 2}
C17_Witness ==
    /\ last.op = "save_data"
    /\ stored = <<<<PdfA, D1>>, <<PdfB, D1>>, <<PdfB, D1>>>>
    /\ IndicesOf(files, D1) = {1, 2}
    /\ IndicesOf(files, D2) = {}

====
